---- MODULE Spec2Model ----
(***************************************************************************)
(* Incremental disk-usage analyzer of gdu (pkg/analyze): the persistent    *)
(* per-directory metadata cache (incremental_storage.go), the cache        *)
(* statistics (incremental_stats.go) and the mtime-validated tree walker   *)
(* (incremental.go).                                                       *)
(*                                                                         *)
(* Specifications:                                                         *)
(*   Spec         the walker: filesystem changes interleaved with complete *)
(*                AnalyzeDir runs against the same storage path;           *)
(*   StorageSpec  the life cycle of one IncrementalStorage object and the  *)
(*                operations called on it;                                 *)
(*   LockSpec     the same storage at the level of its read lock: method   *)
(*                calls of several goroutines, the GC goroutine and the    *)
(*                release function;                                        *)
(*   FacadeSpec   AnalyzeDir, updateProgress and a consumer as goroutines; *)
(*   ThrottleSpec the IOThrottle: Acquire calls of several goroutines,     *)
(*                cancellation of their contexts, Reset and the passing of *)
(*                time.                                                    *)
(***************************************************************************)
EXTENDS Integers, Sequences, FiniteSets, TLC

VARIABLES
    fs,        \* the filesystem: directory path -> [exists, mtime, files]
    clock,     \* wall clock (also the source of mtimes)
    mods,      \* number of filesystem modifications made so far
    faults,    \* number of calls during which an I/O fault was injected
    kv,        \* on-disk content of the BadgerDB at storagePath: key -> value
    runs,      \* number of AnalyzeDir calls completed
    tree,      \* fs.Item returned by the last AnalyzeDir call
    stats,     \* CacheStats of the analyzer of the last call
    log,       \* filesystem and storage operations issued by the last call
    opts,      \* options and arguments of the last call
    runFs,     \* the filesystem as it was during the last call
    isOpen,    \* IncrementalStorage.db != nil
    counter,   \* IncrementalStorage.counter
    lastOp,    \* the last storage operation called and its outcome
    closeFn,   \* Open has returned its release function to the caller
    storagePath, \* IncrementalStorage.storagePath
    stored,    \* history: per path, the record last stored and not yet deleted
    mu,        \* CacheStats.mu: read holds, writer holding, writers announced
    spc,       \* position of the goroutine that calls CacheStats.String()
    ipc,       \* position of the goroutine that increments the counters
    rendered,  \* what the last String() call formatted
    holders,   \* tasks that hold the read lock s.m and use the database handle
    gc,        \* the value-log GC goroutine started by checkCount
    apc,       \* where the goroutine running AnalyzeDir is
    upc,       \* where the goroutine running updateProgress is
    progressChan,     \* a.progressChan, buffer of 1
    progressOutChan,  \* a.progressOutChan, buffer of 1
    progress,  \* a.progress.ItemCount
    doneChan,  \* a.doneChan: the number of Broadcast calls on it
    todo,      \* directories the walk has still to report
    result,    \* flag of the fs.Item AnalyzeDir returned, Nil before it returns
    scanEnd,   \* a.stats.ScanEndTime has been set
    observed,  \* a consumer has returned from GetDone().Wait()
    calls,     \* AnalyzeDir calls started on the analyzer
    throttle,  \* the IOThrottle: whether it was made, maxIOPS and ioDelay
    limiter,   \* IOThrottle.limiter, the token bucket in use
    ticks,     \* the time the throttle sees
    acq,       \* goroutine -> where its Acquire call is and what it returned
    acquires,  \* Acquire calls made so far
    reserved,  \* reservations made on the limiter in use
    granted,   \* of those, the Acquire calls that returned nil
    fresh      \* the time at which the limiter in use was made

facadeVars == <<apc, upc, progressChan, progressOutChan, progress, doneChan,
                todo, result, scanEnd, observed, calls>>
lockVars == <<holders, gc>>
throttleVars == <<throttle, limiter, ticks, acq, acquires, reserved, granted, fresh>>

statsVars == <<mu, spc, ipc, rendered>>

vars == <<fs, clock, mods, faults, kv, runs, tree, stats, log, opts, runFs,
          isOpen, counter, lastOp, closeFn, storagePath, stored, statsVars, throttleVars, lockVars, facadeVars>>

walkerVars == <<fs, clock, mods, faults, runs, tree, stats, log, opts, runFs>>
storageVars == <<isOpen, counter, lastOp, closeFn>>

-----------------------------------------------------------------------------
(* Bounds of the model *)

MaxClock == 3
MaxMods == 1
MaxFaults == 1
MaxFiles == 1
MaxRuns == 3
MaxOps == 4

-----------------------------------------------------------------------------
(* Values *)

Nil == "nil"
ZeroTime == 0

\* incremental.go:21
DefaultDirBlockSize == 4096

\* what Stat().Size() reports for a directory, and Size()/Usage of a file
DirInfoSize == 2
FileInfoSize == 3
FileInfoUsage == 4

\* the cache age limit used by runs that set one
SomeMaxAge == 1

Root == <<"r">>
Nested == <<"r", "d">>
SubNested == <<"r", "d", "s">>
Dirs == {Root, Nested, SubNested}

\* names files are created under, in creation order
FileNames == <<"f1", "f2", "f3">>

\* os.ReadDir returns the entries sorted by filename
NameOrder == <<"d", "f1", "f2", "f3", "s">>

\* path/filepath
Join(path, name) == Append(path, name)
Base(path) == path[Len(path)]
Dir(path) == SubSeq(path, 1, Len(path) - 1)

IsPrefix(p, q) == Len(p) <= Len(q) /\ SubSeq(q, 1, Len(p)) = p

-----------------------------------------------------------------------------
(* The filesystem *)

ParentsExist(f, path) ==
    \A n \in 1..Len(path) : f[SubSeq(path, 1, n)].exists

\* os.Stat(path)
Stat(f, path) ==
    IF path \in Dirs /\ ParentsExist(f, path)
    THEN [ok |-> TRUE, mtime |-> f[path].mtime, size |-> DirInfoSize]
    ELSE [ok |-> FALSE, mtime |-> ZeroTime, size |-> 0]

\* the filesystem after os.WriteFile of a new file in directory d at time t
WriteFileFs(f, d, t) ==
    [f EXCEPT ![d].files =
                  Append(@, [name |-> FileNames[Len(@) + 1], size |-> FileInfoSize,
                             usage |-> FileInfoUsage, mtime |-> t]),
              ![d].mtime = t]

\* os.ReadDir(path): the directory's entries, sorted by filename
ReadDir(f, path) ==
    LET IsFile(n) == \E i \in 1..Len(f[path].files) : f[path].files[i].name = n
        IsSub(n) == Join(path, n) \in Dirs /\ f[Join(path, n)].exists
        Present(n) == IsFile(n) \/ IsSub(n)
        names == SelectSeq(NameOrder, Present)
        InfoOf(n) == CHOOSE x \in {f[path].files[i] : i \in 1..Len(f[path].files)} :
                        x.name = n
    IN [i \in 1..Len(names) |->
          IF IsSub(names[i])
          THEN [name |-> names[i], isDir |-> TRUE,
                size |-> 0, usage |-> 0, mtime |-> ZeroTime]
          ELSE [name |-> names[i], isDir |-> FALSE,
                size |-> InfoOf(names[i]).size, usage |-> InfoOf(names[i]).usage,
                mtime |-> InfoOf(names[i]).mtime]]

-----------------------------------------------------------------------------
(* incremental_storage.go *)

ZeroFileMetadata ==
    [name |-> "", isDir |-> FALSE, size |-> 0, usage |-> 0,
     mtime |-> ZeroTime, flag |-> "", mli |-> 0]

ZeroDirMetadata ==
    [path |-> <<>>, mtime |-> ZeroTime, size |-> 0, usage |-> 0, itemCount |-> 0,
     flag |-> "", files |-> <<>>, cachedAt |-> ZeroTime, scanDuration |-> 0]

\* an encoder that sends a time truncated to the value before it
GobEncodeTruncatingTime(v, zero) ==
    [g \in {h \in DOMAIN v : v[h] # zero[h]} |->
        IF g = "mtime" THEN v[g] - 1 ELSE v[g]]

\* encoding/gob sends only the fields that differ from their zero value ...
GobEncodeStruct(v, zero) ==
    [g \in {h \in DOMAIN v : v[h] # zero[h]} |-> v[g]]

\* ... and a decoder leaves the fields it did not receive at their zero value
GobDecodeStruct(b, zero) ==
    [g \in DOMAIN zero |-> IF g \in DOMAIN b THEN b[g] ELSE zero[g]]

GobEncode(meta) ==
    GobEncodeStruct(
        [meta EXCEPT !.files =
            [i \in 1..Len(meta.files) |-> GobEncodeStruct(meta.files[i], ZeroFileMetadata)]],
        ZeroDirMetadata)

GobDecode(b) ==
    LET m == GobDecodeStruct(b, ZeroDirMetadata)
    IN [m EXCEPT !.files =
            [i \in 1..Len(m.files) |-> GobDecodeStruct(m.files[i], ZeroFileMetadata)]]

makeKey(path) == <<"incr:">> \o path

\* a set that does not replace the value of a key that has one
TxnSetIfAbsent(content, key, val) ==
    [k \in DOMAIN content \cup {key} |-> IF k \in DOMAIN content THEN content[k] ELSE val]

\* txn.Set / txn.Delete on the key-value content
TxnSet(content, key, val) ==
    [k \in DOMAIN content \cup {key} |-> IF k = key THEN val ELSE content[k]]

\* a delete that removes every key with the prefix of the given one
TxnDeletePrefix(content, key) ==
    [k \in {j \in DOMAIN content : j[1] # key[1]} |-> content[k]]

TxnDelete(content, key) ==
    [k \in DOMAIN content \ {key} |-> content[k]]

EmptyContent == [k \in {} |-> 0]

\* Outcome of a storage method: it panics, returns an error, or returns nil.
\* The methods use s.db without testing it, so with s.db == nil (never opened,
\* or released) the call dereferences a nil *badger.DB.
StoreDirMetadata(open, content, meta, writeFails) ==
    IF ~open THEN [panic |-> TRUE, err |-> "", content |-> content]
    ELSE IF writeFails
         THEN [panic |-> FALSE, err |-> "write error", content |-> content]
         ELSE [panic |-> FALSE, err |-> "",
               content |-> TxnSet(content, makeKey(meta.path),
                                  [valid |-> TRUE, gob |-> GobEncode(meta)])]

LoadDirMetadata(open, content, path) ==
    IF ~open THEN [panic |-> TRUE, err |-> "", meta |-> ZeroDirMetadata]
    ELSE IF makeKey(path) \notin DOMAIN content
         THEN [panic |-> FALSE, err |-> "reading cached metadata: key not found",
               meta |-> ZeroDirMetadata]
    ELSE IF ~content[makeKey(path)].valid
         THEN [panic |-> FALSE, err |-> "corrupted cache entry",
               meta |-> ZeroDirMetadata]
    ELSE LET meta == GobDecode(content[makeKey(path)].gob)
         IN IF meta.path = <<>>
            THEN [panic |-> FALSE, err |-> "invalid cache entry: empty path",
                  meta |-> ZeroDirMetadata]
            ELSE [panic |-> FALSE, err |-> "", meta |-> meta]

DeleteDirMetadata(open, content, path) ==
    IF ~open THEN [panic |-> TRUE, err |-> "", content |-> content]
    ELSE [panic |-> FALSE, err |-> "", content |-> TxnDelete(content, makeKey(path))]

ClearCache(open, content) ==
    IF ~open THEN [panic |-> TRUE, err |-> "", content |-> content]
    ELSE [panic |-> FALSE, err |-> "", content |-> EmptyContent]

GetCacheSize(open, content) ==
    IF ~open THEN [panic |-> TRUE, err |-> "", size |-> 0]
    ELSE [panic |-> FALSE, err |-> "", size |-> Cardinality(DOMAIN content)]

-----------------------------------------------------------------------------
(* incremental_stats.go *)

NewCacheStats ==
    [totalDirs |-> 0, cacheHits |-> 0, cacheMisses |-> 0, cacheExpired |-> 0,
     dirsRescanned |-> 0, bytesFromCache |-> 0, bytesScanned |-> 0]

IncrementTotalDirs(st) == [st EXCEPT !.stats.totalDirs = @ + 1]
IncrementCacheHits(st) == [st EXCEPT !.stats.cacheHits = @ + 1]
\* a miss that is counted by the caller and by the callee
IncrementCacheMissesTwice(st) == [st EXCEPT !.stats.cacheMisses = @ + 2]

IncrementCacheMisses(st) == [st EXCEPT !.stats.cacheMisses = @ + 1]
IncrementCacheExpired(st) == [st EXCEPT !.stats.cacheExpired = @ + 1]
IncrementDirsRescanned(st) == [st EXCEPT !.stats.dirsRescanned = @ + 1]
AddBytesFromCache(st, bytes) == [st EXCEPT !.stats.bytesFromCache = @ + bytes]
AddBytesScanned(st, bytes) == [st EXCEPT !.stats.bytesScanned = @ + bytes]

-----------------------------------------------------------------------------
(* incremental.go: the walker.                                             *)
(* st  = [content, stats, log]: what a call reads and updates as it goes;  *)
(* env = [fs, now, force, maxAge, ignore, fault]: what stays fixed during  *)
(* one AnalyzeDir call.  Every operator returns [dir, st].                 *)

Event(op, path, mtime, cachedAt) ==
    [op |-> op, path |-> path, mtime |-> mtime, cachedAt |-> cachedAt]
LogOp(st, op, path) == [st EXCEPT !.log = Append(@, Event(op, path, ZeroTime, ZeroTime))]

\* the paths on which operation op is issued in the log l
Issued(l, op) == {l[i].path : i \in {j \in 1..Len(l) : l[j].op = op}}

NoFault == [kind |-> "none", path |-> <<>>]
Faults ==
    {NoFault, [kind |-> "open", path |-> <<>>]}
      \cup {[kind |-> k, path |-> p] : k \in {"store", "list", "acquire", "stat", "modify"}, p \in Dirs}

\* a.ignoreDir(name, entryPath), the caller's predicate
ignoreDir(ignore, name, entryPath) == entryPath \in ignore

getDirFlag(listErr, items) ==
    IF listErr THEN "!" ELSE IF items = 0 THEN "e" ELSE " "

\* getFlag(info) for the entries of the model, which are regular files
getFlag(info) == " "

\* dir.AddFile(item)
AddFile(files, item) == Append(files, item)

\* setDirPlatformSpecificAttrs(dir, path): the directory's mtime from stat
setDirPlatformSpecificAttrs(dir, f, path) ==
    IF Stat(f, path).ok THEN [dir EXCEPT !.mtime = Stat(f, path).mtime] ELSE dir

\* setPlatformSpecificAttrs(file, info): usage, mtime and inode of the entry
setPlatformSpecificAttrs(file, info) ==
    [file EXCEPT !.usage = info.usage, !.mtime = info.mtime, !.mli = 0]

\* an empty directory node without the error flag
createEmptyDir(path) ==
    [isDir |-> TRUE, name |-> Base(path), flag |-> "e", basePath |-> Dir(path),
     size |-> 0, usage |-> 0, mtime |-> ZeroTime, itemCount |-> 0,
     files |-> <<>>, parent |-> Nil]

createErrorDir(path) ==
    [isDir |-> TRUE, name |-> Base(path), flag |-> "!", basePath |-> Dir(path),
     size |-> 0, usage |-> 0, mtime |-> ZeroTime, itemCount |-> 0,
     files |-> <<>>, parent |-> Nil]

extractFileMetadata(dir) ==
    [i \in 1..Len(dir.files) |->
        [name |-> dir.files[i].name, isDir |-> dir.files[i].isDir,
         size |-> dir.files[i].size, usage |-> dir.files[i].usage,
         mtime |-> dir.files[i].mtime, flag |-> dir.files[i].flag,
         mli |-> IF dir.files[i].isDir THEN 0 ELSE dir.files[i].mli]]

RECURSIVE processDir(_, _, _)
RECURSIVE scanEntries(_, _, _, _)
RECURSIVE rebuildChildren(_, _, _, _)
RECURSIVE rebuildFromCache(_, _, _)

\* one subdirectory entry of the loop: SetParent, AddFile and the totals
addSubdir(acc, path, r) ==
    [st |-> r.st,
     files |-> AddFile(acc.files, [r.dir EXCEPT !.parent = path]),
     totalSize |-> acc.totalSize + r.dir.size,
     totalUsage |-> acc.totalUsage + r.dir.usage,
     itemCount |-> acc.itemCount + r.dir.itemCount]

\* one file entry of the loop
addEntry(acc, path, file) ==
    [st |-> acc.st,
     files |-> AddFile(acc.files, file),
     totalSize |-> acc.totalSize + file.size,
     totalUsage |-> acc.totalUsage + file.usage,
     itemCount |-> acc.itemCount + 1]

\* the loop of performFullScan over the listed entries
scanEntries(path, entries, acc, env) ==
    IF entries = <<>> THEN acc
    ELSE IF Head(entries).isDir
    THEN IF ignoreDir(env.ignore, Head(entries).name, Join(path, Head(entries).name))
         THEN scanEntries(path, Tail(entries), acc, env)
         ELSE scanEntries(path, Tail(entries),
                addSubdir(acc, path,
                    processDir(Join(path, Head(entries).name), acc.st, env)), env)
    ELSE scanEntries(path, Tail(entries),
            addEntry(acc, path,
                setPlatformSpecificAttrs(
                    [isDir |-> FALSE, name |-> Head(entries).name,
                     flag |-> getFlag(Head(entries)), size |-> Head(entries).size,
                     usage |-> 0, mtime |-> ZeroTime, mli |-> 0, parent |-> path],
                    Head(entries))), env)

\* the Dir that performFullScan returns, from what its loop accumulated
scannedDir(path, listErr, items, acc, env) ==
    [dir |-> setDirPlatformSpecificAttrs(
                [isDir |-> TRUE, name |-> Base(path),
                 flag |-> getDirFlag(listErr, items),
                 basePath |-> Dir(path), size |-> acc.totalSize,
                 usage |-> acc.totalUsage, mtime |-> ZeroTime,
                 itemCount |-> acc.itemCount + 1,
                 files |-> acc.files, parent |-> Nil], env.fs, path),
     st |-> acc.st]

\* a.throttle.Acquire before path is read, of an analyzer that has a
\* throttle; when it returns an error the error is logged and performFullScan
\* goes on
acquired(path, st, env) ==
    IF env.fault.kind = "acquire" /\ env.fault.path = path
    THEN LogOp(LogOp(st, "acquire", path), "throttle error", path)
    ELSE LogOp(st, "acquire", path)

\* another process creates a file in path after processDir has called
\* os.Stat(path) and before performFullScan calls os.ReadDir(path)
modified(path, st, env) ==
    IF env.fault.kind = "modify" /\ env.fault.path = path
    THEN LogOp(st, "modify", path)
    ELSE st

\* the filesystem that os.ReadDir(path) reads
fsAtList(path, env) ==
    IF env.fault.kind = "modify" /\ env.fault.path = path
    THEN WriteFileFs(env.fs, path, env.now)
    ELSE env.fs

performFullScan(path, st, env) ==
    LET listErr == env.fault.kind = "list" /\ env.fault.path = path
        files == IF listErr THEN <<>> ELSE ReadDir(fsAtList(path, env), path)
        dirInfo == Stat(env.fs, path)
        self == IF dirInfo.ok THEN dirInfo.size ELSE DefaultDirBlockSize
    IN scannedDir(path, listErr, Len(files),
          scanEntries(path, files,
              [st |-> LogOp(acquired(path, modified(path, st, env), env), "list", path),
               files |-> <<>>,
               totalSize |-> self, totalUsage |-> self, itemCount |-> 0], env),
          env)

\* a record that carries the mtime the directory has when the record is
\* written, not the one observed before the scan
cacheScannedWithLateMtime(path, currentMtime, r, env) ==
    LET meta == [path |-> path,
                 mtime |-> IF path \in Issued(r.st.log, "modify")
                           THEN env.now ELSE currentMtime,
                 size |-> r.dir.size,
                 usage |-> r.dir.usage, itemCount |-> r.dir.itemCount,
                 flag |-> r.dir.flag, files |-> extractFileMetadata(r.dir),
                 cachedAt |-> env.now, scanDuration |-> 0]
        w == StoreDirMetadata(TRUE, r.st.content, meta,
                              env.fault.kind = "store" /\ env.fault.path = path)
        st1 == [LogOp(r.st, "store", path) EXCEPT !.content = w.content]
    IN [dir |-> r.dir, st |-> AddBytesScanned(st1, r.dir.size)]

\* a scan whose result is marked as failed when its record cannot be stored
cacheScannedOrFail(path, currentMtime, r, env) ==
    LET fails == env.fault.kind = "store" /\ env.fault.path = path
        meta == [path |-> path, mtime |-> currentMtime, size |-> r.dir.size,
                 usage |-> r.dir.usage, itemCount |-> r.dir.itemCount,
                 flag |-> r.dir.flag, files |-> extractFileMetadata(r.dir),
                 cachedAt |-> env.now, scanDuration |-> 0]
        w == StoreDirMetadata(TRUE, r.st.content, meta, fails)
        st1 == [LogOp(r.st, "store", path) EXCEPT !.content = w.content]
    IN [dir |-> IF fails THEN [r.dir EXCEPT !.flag = "!"] ELSE r.dir,
        st |-> AddBytesScanned(st1, r.dir.size)]

\* scanAndCache after the scan: build the record of r.dir and store it
cacheScanned(path, currentMtime, r, env) ==
    LET meta == [path |-> path, mtime |-> currentMtime, size |-> r.dir.size,
                 usage |-> r.dir.usage, itemCount |-> r.dir.itemCount,
                 flag |-> r.dir.flag, files |-> extractFileMetadata(r.dir),
                 cachedAt |-> env.now, scanDuration |-> 0]
        w == StoreDirMetadata(TRUE, r.st.content, meta,
                              env.fault.kind = "store" /\ env.fault.path = path)
        st1 == [LogOp(r.st, "store", path) EXCEPT !.content = w.content]
    IN [dir |-> r.dir, st |-> AddBytesScanned(st1, r.dir.size)]

\* a scan whose result is not stored
scanWithoutCache(path, currentMtime, st, env) ==
    performFullScan(path, st, env)

\* a scan that writes the record of the directory before it descends
scanAfterCache(path, currentMtime, st, env) ==
    performFullScan(path, LogOp(st, "store", path), env)

scanAndCache(path, currentMtime, st, env) ==
    cacheScanned(path, currentMtime, performFullScan(path, st, env), env)

\* dir.AddFile(childDir) for a child directory of a rebuilt directory
attachChild(acc, parentPath, r) ==
    [st |-> r.st, files |-> AddFile(acc.files, [r.dir EXCEPT !.parent = parentPath])]

\* the loop of rebuildFromCache over cached.Files
rebuildChildren(cached, metas, acc, env) ==
    IF metas = <<>> THEN acc
    ELSE LET fileMeta == Head(metas)
         IN IF fileMeta.isDir
            THEN LET childPath == Join(cached.path, fileMeta.name)
                     l == LoadDirMetadata(TRUE, acc.st.content, childPath)
                     st1 == LogOp(acc.st, "load", childPath)
                 IN IF l.err # ""
                    THEN rebuildChildren(cached, Tail(metas),
                            attachChild(acc, cached.path,
                                processDir(childPath, st1, env)), env)
                    ELSE rebuildChildren(cached, Tail(metas),
                            attachChild(acc, cached.path,
                                rebuildFromCache(l.meta, st1, env)), env)
            ELSE rebuildChildren(cached, Tail(metas),
                    [st |-> acc.st,
                     files |-> AddFile(acc.files,
                                 [isDir |-> FALSE, name |-> fileMeta.name,
                                  flag |-> fileMeta.flag, size |-> fileMeta.size,
                                  usage |-> fileMeta.usage, mtime |-> fileMeta.mtime,
                                  mli |-> fileMeta.mli, parent |-> cached.path])], env)

\* the Dir that rebuildFromCache returns: its fields from the record, its
\* children from the loop
rebuiltDir(cached, acc) ==
    [dir |-> [isDir |-> TRUE, name |-> Base(cached.path), flag |-> cached.flag,
              basePath |-> Dir(cached.path), size |-> cached.size,
              usage |-> cached.usage, mtime |-> cached.mtime,
              itemCount |-> cached.itemCount, files |-> acc.files, parent |-> Nil],
     st |-> acc.st]

\* a cache hit that reads the directory all the same
rescanOnHit(cached, st, env) ==
    performFullScan(cached.path, st, env)

rebuildFromCache(cached, st, env) ==
    rebuiltDir(cached,
        rebuildChildren(cached, cached.files,
            [st |-> [st EXCEPT !.log =
                        Append(@, Event("rebuild", cached.path, cached.mtime,
                                        cached.cachedAt))],
             files |-> <<>>], env))

\* os.Stat(path) of processDir, which may fail on a directory that exists
osStat(path, env) ==
    IF env.fault.kind = "stat" /\ env.fault.path = path
    THEN [ok |-> FALSE, mtime |-> ZeroTime, size |-> 0]
    ELSE Stat(env.fs, path)

processDir(path, st, env) ==
    LET stat == osStat(path, env)
        st0 == LogOp(st, "stat", path)
    IN IF ~stat.ok THEN [dir |-> createErrorDir(path), st |-> st0]
       ELSE IF env.force
            THEN scanAndCache(path, stat.mtime, IncrementDirsRescanned(st0), env)
       ELSE LET l == LoadDirMetadata(TRUE, st0.content, path)
                st1 == LogOp(st0, "load", path)
            IN IF l.err # ""
               THEN scanAndCache(path, stat.mtime,
                        IncrementTotalDirs(IncrementCacheMisses(st1)), env)
               ELSE IF env.maxAge > 0 /\ env.now - l.meta.cachedAt > env.maxAge
               THEN scanAndCache(path, stat.mtime,
                        IncrementTotalDirs(IncrementDirsRescanned(
                            IncrementCacheExpired(st1))), env)
               ELSE IF l.meta.mtime # stat.mtime
               THEN scanAndCache(path, stat.mtime,
                        IncrementTotalDirs(IncrementDirsRescanned(st1)), env)
               ELSE rebuildFromCache(l.meta,
                        AddBytesFromCache(
                            IncrementTotalDirs(IncrementCacheHits(st1)), l.meta.size),
                        env)

-----------------------------------------------------------------------------
(* The walker specification *)

NoItem == [isDir |-> FALSE, name |-> ""]

\* The calls of the model: each differs from a plain call (no forced scan, no
\* age limit, nothing ignored, no fault) in at most one respect.
Plain == [force |-> FALSE, maxAge |-> 0, ignore |-> {}, fault |-> NoFault]
Calls ==
    {Plain,
     [Plain EXCEPT !.force = TRUE],
     [Plain EXCEPT !.maxAge = SomeMaxAge],
     [Plain EXCEPT !.ignore = {Nested}]}
      \cup {[Plain EXCEPT !.fault = f] : f \in Faults}

NoOpts == [force |-> FALSE, maxAge |-> 0, ignore |-> {}, fault |-> NoFault, now |-> 0]

InitFs == [p \in Dirs |-> [exists |-> TRUE, mtime |-> 1, files |-> <<>>]]

\* IncrementalAnalyzer.AnalyzeDir(Root, ignore, constGC) of an analyzer created
\* with IncrementalOptions{CacheMaxAge: maxAge, ForceFullScan: force}
AnalyzeDir(force, maxAge, ignore, fault) ==
    /\ runs < MaxRuns
    /\ fault # NoFault => faults < MaxFaults
    /\ fault.kind = "modify"
          => (Stat(fs, fault.path).ok /\ Len(fs[fault.path].files) < MaxFiles)
    /\ faults' = IF fault # NoFault THEN faults + 1 ELSE faults
    /\ \E r \in {IF fault.kind = "open"
                 THEN [dir |-> [isDir |-> TRUE, name |-> Base(Root), flag |-> "!",
                                basePath |-> Dir(Root), size |-> 0, usage |-> 0,
                                mtime |-> ZeroTime, itemCount |-> 0,
                                files |-> <<>>, parent |-> Nil],
                       st |-> [content |-> kv, stats |-> NewCacheStats, log |-> <<>>]]
                 ELSE processDir(Root,
                        [content |-> kv, stats |-> NewCacheStats, log |-> <<>>],
                        [fs |-> fs, now |-> clock, force |-> force, maxAge |-> maxAge,
                         ignore |-> ignore, fault |-> fault])} :
          /\ tree' = r.dir
          /\ kv' = r.st.content
          /\ stats' = r.st.stats
          /\ log' = r.st.log
          /\ fs' = IF fault.path \in Issued(r.st.log, "modify")
                   THEN WriteFileFs(fs, fault.path, clock) ELSE fs
    /\ opts' = [force |-> force, maxAge |-> maxAge, ignore |-> ignore,
                fault |-> fault, now |-> clock]
    /\ runFs' = fs
    /\ runs' = runs + 1
    /\ UNCHANGED <<clock, mods, isOpen, counter, lastOp, closeFn, storagePath, stored, statsVars, throttleVars, lockVars, facadeVars>>

\* time passes
Tick ==
    /\ clock < MaxClock
    /\ clock' = clock + 1
    /\ UNCHANGED <<fs, mods, faults, kv, runs, tree, stats, log, opts, runFs,
                   isOpen, counter, lastOp, closeFn, storagePath, stored, statsVars, throttleVars, lockVars, facadeVars>>

\* os.WriteFile of a new file in directory d
WriteFile(d) ==
    /\ mods < MaxMods
    /\ ParentsExist(fs, d)
    /\ Len(fs[d].files) < MaxFiles
    /\ fs' = WriteFileFs(fs, d, clock)
    /\ mods' = mods + 1
    /\ UNCHANGED <<clock, faults, kv, runs, tree, stats, log, opts, runFs,
                   isOpen, counter, lastOp, closeFn, storagePath, stored, statsVars, throttleVars, lockVars, facadeVars>>

\* os.Chtimes(d, now, now)
Chtimes(d) ==
    /\ mods < MaxMods
    /\ ParentsExist(fs, d)
    /\ fs[d].mtime # clock
    /\ fs' = [fs EXCEPT ![d].mtime = clock]
    /\ mods' = mods + 1
    /\ UNCHANGED <<clock, faults, kv, runs, tree, stats, log, opts, runFs,
                   isOpen, counter, lastOp, closeFn, storagePath, stored, statsVars, throttleVars, lockVars, facadeVars>>

\* os.RemoveAll(d)
RemoveAll(d) ==
    /\ mods < MaxMods
    /\ ParentsExist(fs, d)
    /\ fs' = [p \in Dirs |->
                IF IsPrefix(d, p) THEN [exists |-> FALSE, mtime |-> ZeroTime, files |-> <<>>]
                ELSE IF p = Dir(d) THEN [fs[p] EXCEPT !.mtime = clock]
                ELSE fs[p]]
    /\ mods' = mods + 1
    /\ UNCHANGED <<clock, faults, kv, runs, tree, stats, log, opts, runFs,
                   isOpen, counter, lastOp, closeFn, storagePath, stored, statsVars, throttleVars, lockVars, facadeVars>>

\* the ways in which the value of a key stops being a loadable record: bytes
\* that gob cannot decode, or the encoding of a record whose Path is empty
Corruptions ==
    {[valid |-> FALSE, gob |-> GobEncode(ZeroDirMetadata)],
     [valid |-> TRUE, gob |-> GobEncode(ZeroDirMetadata)]}

\* between two calls the value stored for directory d is damaged
Corrupt(d, val) ==
    /\ faults < MaxFaults
    /\ makeKey(d) \in DOMAIN kv
    /\ kv[makeKey(d)] \notin Corruptions
    /\ kv' = [kv EXCEPT ![makeKey(d)] = val]
    /\ faults' = faults + 1
    /\ UNCHANGED <<fs, clock, mods, runs, tree, stats, log, opts, runFs,
                   isOpen, counter, lastOp, closeFn, storagePath, stored, statsVars, throttleVars, lockVars, facadeVars>>

\* goroutines calling methods of one storage, or Acquire of one throttle
MaxThreads == 2

Threads == 1 .. MaxThreads

\* a.throttle == nil: CreateIncrementalAnalyzer with MaxIOPS and IODelay zero
NoThrottle == [made |-> FALSE, maxIOPS |-> 0, ioDelay |-> 0]

\* IOThrottle.limiter == nil
NoLimiter == [on |-> FALSE, tokens |-> 0, last |-> 0, lastEvent |-> 0]

\* a goroutine that is not inside Acquire and has not called it yet
NoAcquire == [pc |-> "idle", wake |-> 0, stale |-> FALSE, cancelled |-> FALSE,
              result |-> ""]

\* A storage path is represented by the fragments of its text that Open
\* searches error texts for: a path such as /tmp/gdu-cache and one such as
\* /tmp/invalid-cache.
StoragePaths == {{}, {"invalid"}}

\* no String() call has returned yet
NothingRendered ==
    [hitRate |-> 0, cacheHits |-> 0, cacheMisses |-> 0, ioReduction |-> 0,
     totalDirs |-> 0]

\* a path under which nothing was stored yet, and one whose record was deleted
NeverStored == [state |-> "none", meta |-> ZeroDirMetadata]
Deleted == [state |-> "deleted", meta |-> ZeroDirMetadata]

NoOp == [op |-> "none", open |-> FALSE, panic |-> FALSE, err |-> ""]

Init ==
    /\ fs = InitFs
    /\ clock = 1
    /\ mods = 0
    /\ faults = 0
    /\ kv = EmptyContent
    /\ runs = 0
    /\ tree = NoItem
    /\ stats = NewCacheStats
    /\ log = <<>>
    /\ opts = NoOpts
    /\ runFs = InitFs
    /\ isOpen = FALSE
    /\ counter = 0
    /\ lastOp = NoOp
    /\ closeFn = FALSE
    /\ storagePath \in StoragePaths
    /\ stored = [p \in Dirs |-> NeverStored]
    /\ mu = [readers |-> 0, writer |-> FALSE, pending |-> FALSE]
    /\ spc = "idle"
    /\ ipc = "idle"
    /\ rendered = NothingRendered
    /\ holders = {}
    /\ gc = "none"
    /\ apc = "idle"
    /\ upc = "none"
    /\ progressChan = <<>>
    /\ progressOutChan = <<>>
    /\ progress = 0
    /\ doneChan = 0
    /\ todo = 0
    /\ result = Nil
    /\ scanEnd = FALSE
    /\ observed = FALSE
    /\ calls = 0
    /\ throttle = NoThrottle
    /\ limiter = NoLimiter
    /\ ticks = 0
    /\ acq = [t \in Threads |-> NoAcquire]
    /\ acquires = 0
    /\ reserved = 0
    /\ granted = 0
    /\ fresh = 0

Next ==
    \/ \E c \in Calls : AnalyzeDir(c.force, c.maxAge, c.ignore, c.fault)
    \/ Tick
    \/ \E d \in Dirs : WriteFile(d)
    \/ \E d \in Dirs : Chtimes(d)
    \/ \E d \in Dirs : RemoveAll(d)
    \/ \E d \in Dirs, val \in Corruptions : Corrupt(d, val)

Spec == Init /\ [][Next]_vars

-----------------------------------------------------------------------------
(* The storage specification: one IncrementalStorage object, opened and    *)
(* released by its owner, and the methods called on it in either state.    *)

Outcome(op, r) == [op |-> op, open |-> isOpen, panic |-> r.panic, err |-> r.err]

\* records handed to StoreDirMetadata
SomeMetas ==
    {[ZeroDirMetadata EXCEPT !.path = p, !.mtime = m, !.size = z] :
        p \in {Root, Nested}, m \in {1, 2}, z \in {0, 1000}}

\* The text of an error is represented by the set of the fragments that Open
\* searches it for (strings.Contains); a storage path is represented the same
\* way, by the fragments its text contains.
DiskPatterns == {"no space left", "disk full"}

CorruptPatterns == {"corrupted", "invalid", "checksum", "manifest"}

LockPatterns == {"Another process is using this Badger database",
                 "Cannot acquire directory lock",
                 "resource temporarily unavailable"}

\* badger.Open on a directory whose lock an open handle holds: the error
\* names the directory lock and the path it could not lock
LockRefused(path) ==
    [ok |-> FALSE, perm |-> FALSE, notExist |-> FALSE, msg |-> path \cup LockPatterns]

\* badger.Open on a directory nobody holds: success, or an error of the
\* operating system or of the database files; each text names the path
OpenResults(path) ==
    { [ok |-> TRUE, perm |-> FALSE, notExist |-> FALSE, msg |-> {}],
      [ok |-> FALSE, perm |-> TRUE, notExist |-> FALSE, msg |-> path],
      [ok |-> FALSE, perm |-> FALSE, notExist |-> FALSE, msg |-> path \cup {"no space left"}],
      [ok |-> FALSE, perm |-> FALSE, notExist |-> FALSE, msg |-> path \cup {"checksum"}],
      [ok |-> FALSE, perm |-> FALSE, notExist |-> TRUE, msg |-> path],
      [ok |-> FALSE, perm |-> FALSE, notExist |-> FALSE, msg |-> path] }

\* what badger.Open can return for the path, given whether a handle holds it
BadgerOpen(path, held) == IF held THEN {LockRefused(path)} ELSE OpenResults(path)

LockedError == "cache database is locked by another gdu process"

\* the error Open returns for a failure of badger.Open, chosen in the order of
\* the if statements
OpenError(err) ==
    IF err.perm THEN "permission denied opening cache"
    ELSE IF err.msg \cap DiskPatterns # {} THEN "insufficient disk space for cache"
    ELSE IF err.msg \cap CorruptPatterns # {} THEN "cache database corrupted"
    ELSE IF err.msg \cap LockPatterns # {} THEN LockedError
    ELSE IF err.notExist THEN "cache directory does not exist"
    ELSE "failed to open cache database"

\* s.Open(): badger.Open either fails, leaving s.db as it was, or s.db = db.
\* The directory lock of the path is held while a handle has it open.
Open(r) ==
    /\ IF ~r.ok
       THEN /\ lastOp' = [op |-> "Open", open |-> isOpen, panic |-> FALSE,
                          err |-> OpenError(r)]
            /\ UNCHANGED <<isOpen, closeFn>>
       ELSE /\ lastOp' = [op |-> "Open", open |-> isOpen, panic |-> FALSE, err |-> ""]
            /\ isOpen' = TRUE
            /\ closeFn' = TRUE
    /\ UNCHANGED <<counter, kv, walkerVars, storagePath, stored, statsVars, throttleVars, lockVars, facadeVars>>

\* the func() returned by Open: s.db.Close(); s.db = nil
Release ==
    /\ closeFn
    /\ lastOp' = [op |-> "Release", open |-> isOpen, panic |-> ~isOpen, err |-> ""]
    /\ isOpen' = FALSE
    /\ UNCHANGED <<counter, closeFn, kv, walkerVars, storagePath, stored, statsVars, throttleVars, lockVars, facadeVars>>

Store(meta) ==
    /\ counter < MaxOps
    /\ counter' = counter + 1
    /\ LET r == StoreDirMetadata(isOpen, kv, meta, FALSE)
       IN /\ kv' = r.content
          /\ lastOp' = Outcome("StoreDirMetadata", r)
          /\ stored' = IF r.panic \/ r.err # "" THEN stored
                       ELSE [stored EXCEPT ![meta.path] =
                                [state |-> "stored", meta |-> meta]]
    /\ UNCHANGED <<isOpen, closeFn, walkerVars, storagePath, statsVars, throttleVars, lockVars, facadeVars>>

Load(path) ==
    /\ counter < MaxOps
    /\ counter' = counter + 1
    /\ lastOp' = Outcome("LoadDirMetadata", LoadDirMetadata(isOpen, kv, path))
    /\ UNCHANGED <<isOpen, closeFn, kv, walkerVars, storagePath, stored, statsVars, throttleVars, lockVars, facadeVars>>

Delete(path) ==
    /\ LET r == DeleteDirMetadata(isOpen, kv, path)
       IN /\ kv' = r.content
          /\ lastOp' = Outcome("DeleteDirMetadata", r)
          /\ stored' = IF r.panic \/ r.err # "" \/ stored[path].state = "none"
                       THEN stored
                       ELSE [stored EXCEPT ![path] = Deleted]
    /\ UNCHANGED <<isOpen, closeFn, counter, walkerVars, storagePath, statsVars, throttleVars, lockVars, facadeVars>>

Clear ==
    /\ LET r == ClearCache(isOpen, kv)
       IN /\ kv' = r.content
          /\ lastOp' = Outcome("ClearCache", r)
          /\ stored' = IF r.panic \/ r.err # "" THEN stored
                       ELSE [p \in Dirs |->
                               IF stored[p].state = "none" THEN stored[p] ELSE Deleted]
    /\ UNCHANGED <<isOpen, closeFn, counter, walkerVars, storagePath, statsVars, throttleVars, lockVars, facadeVars>>

Size ==
    /\ lastOp' = Outcome("GetCacheSize", GetCacheSize(isOpen, kv))
    /\ UNCHANGED <<isOpen, closeFn, counter, kv, walkerVars, storagePath, stored, statsVars, throttleVars, lockVars, facadeVars>>

StorageNext ==
    \/ \E r \in BadgerOpen(storagePath, isOpen) : Open(r)
    \/ Release
    \/ \E meta \in SomeMetas : Store(meta)
    \/ \E path \in {Root, Nested} : Load(path)
    \/ \E path \in {Root, Nested} : Delete(path)
    \/ Clear
    \/ Size

StorageSpec == Init /\ [][StorageNext]_vars

-----------------------------------------------------------------------------
(* The lock-level specification: goroutines that call methods of one       *)
(* storage, the GC goroutine of checkCount and the release function.  A    *)
(* method holds s.m.RLock() from RLock to RUnlock and uses s.db in         *)
(* between; the data it reads or writes is left out here.                  *)

\* s.counter%1000 == 0: every thousandth counted operation starts a GC
GCEvery == 1000

\* methods that call checkCount before taking the lock, and the others
CountedMethods == {"StoreDirMetadata", "LoadDirMetadata"}

LockedMethods == CountedMethods \cup {"DeleteDirMetadata"}

\* goroutine t enters a method: checkCount where the method calls it, then
\* s.m.RLock() and the method's use of s.db, which panics on a nil s.db with
\* the deferred RUnlock releasing the lock again
RLock(t, method) ==
    /\ \A h \in holders : h.thread # t
    /\ IF method \in CountedMethods
       THEN /\ counter < GCEvery
            /\ counter' = counter + 1
            /\ gc' = IF (counter + 1) % GCEvery = 0 THEN "spawned" ELSE gc
       ELSE UNCHANGED <<counter, gc>>
    /\ IF isOpen
       THEN /\ holders' = holders \cup {[thread |-> t, method |-> method]}
            /\ UNCHANGED lastOp
       ELSE /\ lastOp' = [op |-> method, open |-> FALSE, panic |-> TRUE, err |-> ""]
            /\ UNCHANGED holders
    /\ UNCHANGED <<isOpen, closeFn, kv, walkerVars, storagePath, stored, statsVars, throttleVars, facadeVars>>

\* the method returns: defer s.m.RUnlock()
RUnlock(h) ==
    /\ h \in holders
    /\ holders' = holders \ {h}
    /\ UNCHANGED <<storageVars, gc, kv, walkerVars, storagePath, stored, statsVars, throttleVars, facadeVars>>

\* the goroutine started by checkCount: s.m.RLock(); if s.db != nil it runs
\* s.db.RunValueLogGC
GCStart ==
    /\ gc = "spawned"
    /\ gc' = IF isOpen THEN "running" ELSE "none"
    /\ UNCHANGED <<storageVars, holders, kv, walkerVars, storagePath, stored, statsVars, throttleVars, facadeVars>>

\* RunValueLogGC returns: defer s.m.RUnlock()
GCEnd ==
    /\ gc = "running"
    /\ gc' = "none"
    /\ UNCHANGED <<storageVars, holders, kv, walkerVars, storagePath, stored, statsVars, throttleVars, facadeVars>>

LockNext ==
    \/ \E r \in BadgerOpen(storagePath, isOpen) : Open(r)
    \/ Release
    \/ \E t \in Threads, method \in LockedMethods : RLock(t, method)
    \/ \E h \in holders : RUnlock(h)
    \/ GCStart
    \/ GCEnd

LockSpec == Init /\ [][LockNext]_vars

-----------------------------------------------------------------------------
(* The throttle specification: one IOThrottle, goroutines that call        *)
(* Acquire with a context that may be cancelled, a goroutine that calls    *)
(* Reset, and time.  With a limit set, time is counted in units of         *)
(* 1/maxIOPS second, the time in which the bucket gains one token; ioDelay *)
(* is counted in the same unit.  A goroutine blocked in a select is woken  *)
(* by the first of its cases that becomes ready.                           *)

\* time runs freely up to MaxTicks and after that only while a call waits
MaxTicks == 2

\* Acquire calls made on the throttle
MaxAcquires == 3

\* the values of maxIOPS and ioDelay given to NewIOThrottle
IOPSValues == {0, 1, 2}

DelayValues == {0, 1}

Min(a, b) == IF a <= b THEN a ELSE b

\* rate.NewLimiter(rate.Limit(maxIOPS), maxIOPS) made at time t: a full bucket
NewLimiter(burst, t) == [on |-> TRUE, tokens |-> burst, last |-> t, lastEvent |-> t]

\* the tokens of the bucket at time t
advance(lim, burst, t) == Min(burst, lim.tokens + (t - Min(lim.last, t)))

\* a limiter that lets every reservation act at once
reserveAtOnce(lim, burst, t) ==
    [lim |-> [on |-> TRUE, tokens |-> advance(lim, burst, t) - 1, last |-> t,
              lastEvent |-> t],
     timeToAct |-> t]

\* limiter.Wait reserves one token at time t: the bucket may go below zero, and
\* the reservation can act once the missing tokens have been refilled
reserve(lim, burst, t) ==
    [lim |-> [on |-> TRUE, tokens |-> advance(lim, burst, t) - 1, last |-> t,
              lastEvent |-> IF advance(lim, burst, t) < 1
                            THEN t + 1 - advance(lim, burst, t) ELSE t],
     timeToAct |-> IF advance(lim, burst, t) < 1
                   THEN t + 1 - advance(lim, burst, t) ELSE t]

\* limiter.Wait gives its reservation back when the context is cancelled: the
\* token returns to the bucket unless a later reservation was built on it
cancelAt(lim, burst, timeToAct, t) ==
    IF timeToAct < t \/ 1 - (lim.lastEvent - timeToAct) <= 0
    THEN lim
    ELSE [on |-> TRUE,
          tokens |-> Min(burst, advance(lim, burst, t) + 1 - (lim.lastEvent - timeToAct)),
          last |-> t,
          lastEvent |-> IF timeToAct = lim.lastEvent /\ timeToAct - 1 >= t
                        THEN timeToAct - 1 ELSE lim.lastEvent]

\* Acquire after the token: with ioDelay > 0 a timer is started and the
\* select on timer.C and ctx.Done() entered; otherwise return nil
\* the call a has returned res
returned(a, res) ==
    [NoAcquire EXCEPT !.pc = "done", !.result = res, !.cancelled = a.cancelled]

\* time.Sleep(t.ioDelay) in place of the timer and the select
startDelayUninterruptible(a) ==
    IF throttle.ioDelay > 0
    THEN [a EXCEPT !.pc = "sleep", !.wake = ticks + throttle.ioDelay]
    ELSE returned(a, "Ok")

startDelay(a) ==
    IF throttle.ioDelay > 0
    THEN IF a.cancelled
         THEN returned(a, "Cancelled")
         ELSE [a EXCEPT !.pc = "sleep", !.wake = ticks + throttle.ioDelay]
    ELSE returned(a, "Ok")

\* the count of Acquire calls that returned nil on the limiter in use, when
\* the call that was in state old goes to state a
count(old, a) ==
    IF a.pc = "done" /\ a.result = "Ok" /\ limiter.on /\ ~old.stale
    THEN granted + 1 ELSE granted

\* NewIOThrottle(maxIOPS, ioDelay): nil when both are zero or less
NewIOThrottle(maxIOPS, ioDelay) ==
    /\ ~throttle.made
    /\ IF maxIOPS <= 0 /\ ioDelay <= 0
       THEN UNCHANGED <<throttle, limiter, fresh>>
       ELSE /\ throttle' = [made |-> TRUE, maxIOPS |-> maxIOPS, ioDelay |-> ioDelay]
            /\ limiter' = IF maxIOPS > 0 THEN NewLimiter(maxIOPS, ticks) ELSE NoLimiter
            /\ fresh' = ticks
    /\ UNCHANGED <<ticks, acq, acquires, reserved, granted, storageVars, kv,
                   walkerVars, storagePath, stored, statsVars, lockVars, facadeVars>>

\* goroutine c calls t.Acquire(ctx), ctx cancelled already or not: the
\* limiter is read under t.mu, limiter.Wait returns ctx.Err() for a cancelled
\* context and otherwise reserves a token and waits for it if it has to
Acquire(c, cancelled) ==
    /\ throttle.made
    /\ acq[c].pc \in {"idle", "done"}
    /\ acquires < MaxAcquires
    /\ acquires' = acquires + 1
    /\ \E a \in {IF ~limiter.on
                  THEN startDelay([NoAcquire EXCEPT !.cancelled = cancelled])
                  ELSE IF cancelled
                  THEN returned([NoAcquire EXCEPT !.cancelled = TRUE], "Cancelled")
                  ELSE IF reserve(limiter, throttle.maxIOPS, ticks).timeToAct > ticks
                  THEN [NoAcquire EXCEPT !.pc = "waitToken",
                           !.wake = reserve(limiter, throttle.maxIOPS, ticks).timeToAct]
                  ELSE startDelay(NoAcquire)} :
          /\ acq' = [acq EXCEPT ![c] = a]
          /\ granted' = count(NoAcquire, a)
    /\ IF limiter.on /\ ~cancelled
       THEN /\ limiter' = reserve(limiter, throttle.maxIOPS, ticks).lim
            /\ reserved' = reserved + 1
       ELSE UNCHANGED <<limiter, reserved>>
    /\ UNCHANGED <<throttle, ticks, fresh, storageVars, kv, walkerVars, storagePath, stored, statsVars,
                   lockVars, facadeVars>>

\* the context of goroutine c is cancelled while its Acquire is blocked: a
\* select whose timer has not fired yet is woken by ctx.Done()
Cancel(c) ==
    /\ acq[c].pc \in {"waitToken", "sleep"}
    /\ ~acq[c].cancelled
    /\ acq' = [acq EXCEPT ![c].cancelled = TRUE,
                          ![c].pc = IF ticks >= acq[c].wake THEN @
                                    ELSE IF @ = "waitToken" THEN "tokenCancelled"
                                    ELSE "sleepCancelled"]
    /\ UNCHANGED <<throttle, limiter, ticks, acquires, reserved, granted, fresh,
                   storageVars, kv, walkerVars, storagePath, stored, statsVars, lockVars, facadeVars>>

\* a wait that ends only on the limiter in use
TokenWakeOnLimiterInUse(c) ==
    /\ acq[c].pc = "waitToken"
    /\ ticks >= acq[c].wake
    /\ ~acq[c].stale
    /\ \E a \in {startDelay(acq[c])} :
          /\ acq' = [acq EXCEPT ![c] = a]
          /\ granted' = count(acq[c], a)
    /\ UNCHANGED <<throttle, limiter, ticks, acquires, reserved, fresh,
                   storageVars, kv, walkerVars, storagePath, stored, statsVars, lockVars, facadeVars>>

\* limiter.Wait returns nil: the timer of the reservation fired first
TokenWake(c) ==
    /\ acq[c].pc = "waitToken"
    /\ ticks >= acq[c].wake
    /\ \E a \in {startDelay(acq[c])} :
          /\ acq' = [acq EXCEPT ![c] = a]
          /\ granted' = count(acq[c], a)
    /\ UNCHANGED <<throttle, limiter, ticks, acquires, reserved, fresh,
                   storageVars, kv, walkerVars, storagePath, stored, statsVars, lockVars, facadeVars>>

\* limiter.Wait returns ctx.Err(): r.Cancel() on the limiter that was read
TokenCancelled(c) ==
    /\ acq[c].pc = "tokenCancelled"
    /\ acq' = [acq EXCEPT ![c] = returned(acq[c], "Cancelled")]
    /\ limiter' = IF acq[c].stale THEN limiter
                  ELSE cancelAt(limiter, throttle.maxIOPS, acq[c].wake, ticks)
    /\ UNCHANGED <<throttle, ticks, acquires, reserved, granted, fresh,
                   storageVars, kv, walkerVars, storagePath, stored, statsVars, lockVars, facadeVars>>

\* case <-timer.C: return nil
SleepWake(c) ==
    /\ acq[c].pc = "sleep"
    /\ ticks >= acq[c].wake
    /\ \E a \in {returned(acq[c], "Ok")} :
          /\ acq' = [acq EXCEPT ![c] = a]
          /\ granted' = count(acq[c], a)
    /\ UNCHANGED <<throttle, limiter, ticks, acquires, reserved, fresh,
                   storageVars, kv, walkerVars, storagePath, stored, statsVars, lockVars, facadeVars>>

\* case <-ctx.Done(): return ctx.Err()
SleepCancelled(c) ==
    /\ acq[c].pc = "sleepCancelled"
    /\ acq' = [acq EXCEPT ![c] = returned(acq[c], "Cancelled")]
    /\ UNCHANGED <<throttle, limiter, ticks, acquires, reserved, granted, fresh,
                   storageVars, kv, walkerVars, storagePath, stored, statsVars, lockVars, facadeVars>>

\* a Reset that leaves the limiter as it is
ResetKeepsLimiter ==
    /\ throttle.made
    /\ IF throttle.maxIOPS > 0
       THEN /\ reserved' = 0
            /\ granted' = 0
            /\ fresh' = ticks
       ELSE UNCHANGED <<reserved, granted, fresh>>
    /\ UNCHANGED <<throttle, limiter, acq, ticks, acquires, storageVars, kv,
                   walkerVars, storagePath, stored, statsVars, lockVars, facadeVars>>

\* t.Reset(): under t.mu the limiter is replaced by a new one when
\* maxIOPS > 0; calls that read the old limiter go on with the old one
Reset ==
    /\ throttle.made
    /\ IF throttle.maxIOPS > 0
       THEN /\ limiter' = NewLimiter(throttle.maxIOPS, ticks)
            /\ acq' = [c \in Threads |->
                         IF acq[c].pc \in {"idle", "done"} THEN acq[c]
                         ELSE [acq[c] EXCEPT !.stale = TRUE]]
            /\ reserved' = 0
            /\ granted' = 0
            /\ fresh' = ticks
       ELSE UNCHANGED <<limiter, acq, reserved, granted, fresh>>
    /\ UNCHANGED <<throttle, ticks, acquires, storageVars, kv, walkerVars,
                   storagePath, stored, statsVars, lockVars, facadeVars>>

\* time passes
TimePasses ==
    /\ \/ ticks < MaxTicks
       \/ \E c \in Threads : acq[c].pc \in {"waitToken", "sleep"} /\ acq[c].wake > ticks
    /\ ticks' = ticks + 1
    /\ UNCHANGED <<throttle, limiter, acq, acquires, reserved, granted, fresh,
                   storageVars, kv, walkerVars, storagePath, stored, statsVars, lockVars, facadeVars>>

\* the steps of the goroutine c inside Acquire
AcquireStep(c) ==
    \/ \E cancelled \in BOOLEAN : Acquire(c, cancelled)
    \/ TokenWake(c)
    \/ TokenCancelled(c)
    \/ SleepWake(c)
    \/ SleepCancelled(c)

ThrottleNext ==
    \/ \E maxIOPS \in IOPSValues, ioDelay \in DelayValues : NewIOThrottle(maxIOPS, ioDelay)
    \/ \E c \in Threads : AcquireStep(c)
    \/ \E c \in Threads : Cancel(c)
    \/ Reset
    \/ TimePasses

ThrottleSpec == Init /\ [][ThrottleNext]_vars

\* every goroutine inside Acquire is scheduled, and time passes
ThrottleFairSpec ==
    /\ ThrottleSpec
    /\ \A c \in Threads : WF_vars(TokenWake(c) \/ TokenCancelled(c)
                                     \/ SleepWake(c) \/ SleepCancelled(c))
    /\ WF_vars(TimePasses)

-----------------------------------------------------------------------------
(* The statistics specification: one CacheStats, the goroutine of the walk *)
(* that increments its counters and a goroutine that renders it with       *)
(* String().  CacheStats.mu is a sync.RWMutex: Lock announces the writer   *)
(* and waits until no read hold is left; RLock blocks while a writer is    *)
(* announced or holding, also for a goroutine that already has a read hold.*)

MaxIncrements == 3

\* the counters that the model increments
Counters == {"totalDirs", "cacheHits", "cacheMisses"}

\* what the rest of the model leaves alone in a step on the statistics
statsFrame ==
    <<fs, clock, mods, faults, runs, tree, log, opts, runFs, kv, storageVars,
      storagePath, stored, throttleVars, lockVars, facadeVars>>

\* sync.RWMutex.RLock() returns
CanRLock == ~mu.pending /\ ~mu.writer

\* HitRate() computed from the counters, in whole per cent
HitRate(c) ==
    IF c.cacheHits + c.cacheMisses = 0 THEN 0
    ELSE (c.cacheHits * 100) \div (c.cacheHits + c.cacheMisses)

\* IOReduction() computed from the counters, in whole per cent
IOReduction(c) ==
    IF c.bytesFromCache + c.bytesScanned = 0 THEN 0
    ELSE (c.bytesFromCache * 100) \div (c.bytesFromCache + c.bytesScanned)

\* String(): s.mu.RLock(); defer s.mu.RUnlock()
StringRLock ==
    /\ spc = "idle"
    /\ CanRLock
    /\ mu' = [mu EXCEPT !.readers = @ + 1]
    /\ spc' = "callHitRate"
    /\ UNCHANGED <<stats, ipc, rendered, statsFrame>>

\* the argument s.HitRate(): s.mu.RLock() inside String's read hold
HitRateRLock ==
    /\ spc = "callHitRate"
    /\ CanRLock
    /\ mu' = [mu EXCEPT !.readers = @ + 1]
    /\ spc' = "inHitRate"
    /\ UNCHANGED <<stats, ipc, rendered, statsFrame>>

\* HitRate returns: the rate, and the deferred RUnlock
HitRateReturn ==
    /\ spc = "inHitRate"
    /\ mu' = [mu EXCEPT !.readers = @ - 1]
    /\ rendered' = [rendered EXCEPT !.hitRate = HitRate(stats)]
    /\ spc' = "callIOReduction"
    /\ UNCHANGED <<stats, ipc, statsFrame>>

\* the argument s.IOReduction(): s.mu.RLock() inside String's read hold
IOReductionRLock ==
    /\ spc = "callIOReduction"
    /\ CanRLock
    /\ mu' = [mu EXCEPT !.readers = @ + 1]
    /\ spc' = "inIOReduction"
    /\ UNCHANGED <<stats, ipc, rendered, statsFrame>>

\* IOReduction returns: the percentage, and the deferred RUnlock
IOReductionReturn ==
    /\ spc = "inIOReduction"
    /\ mu' = [mu EXCEPT !.readers = @ - 1]
    /\ rendered' = [rendered EXCEPT !.ioReduction = IOReduction(stats)]
    /\ spc' = "format"
    /\ UNCHANGED <<stats, ipc, statsFrame>>

\* fmt.Sprintf with the fields read under the read hold; String returns and
\* the deferred RUnlock runs
StringReturn ==
    /\ spc = "format"
    /\ mu' = [mu EXCEPT !.readers = @ - 1]
    /\ rendered' = [rendered EXCEPT !.cacheHits = stats.cacheHits,
                                    !.cacheMisses = stats.cacheMisses,
                                    !.totalDirs = stats.totalDirs]
    /\ spc' = "idle"
    /\ UNCHANGED <<stats, ipc, statsFrame>>

\* Increment...(): s.mu.Lock() is called and announces the writer
IncrementLock(c) ==
    /\ ipc = "idle"
    /\ stats.totalDirs + stats.cacheHits + stats.cacheMisses < MaxIncrements
    /\ mu' = [mu EXCEPT !.pending = TRUE]
    /\ ipc' = c
    /\ UNCHANGED <<stats, spc, rendered, statsFrame>>

\* s.mu.Lock() returns when no read hold is left
IncrementLocked ==
    /\ ipc \in Counters
    /\ mu.pending
    /\ mu.readers = 0
    /\ mu' = [mu EXCEPT !.pending = FALSE, !.writer = TRUE]
    /\ UNCHANGED <<stats, ipc, spc, rendered, statsFrame>>

\* the counter is incremented and the deferred s.mu.Unlock() runs
IncrementUnlock ==
    /\ ipc \in Counters
    /\ mu.writer
    /\ stats' = [stats EXCEPT ![ipc] = @ + 1]
    /\ mu' = [mu EXCEPT !.writer = FALSE]
    /\ ipc' = "idle"
    /\ UNCHANGED <<spc, rendered, statsFrame>>

StatsNext ==
    \/ StringRLock
    \/ HitRateRLock
    \/ HitRateReturn
    \/ IOReductionRLock
    \/ IOReductionReturn
    \/ StringReturn
    \/ \E c \in Counters : IncrementLock(c)
    \/ IncrementLocked
    \/ IncrementUnlock

StatsSpec == Init /\ [][StatsNext]_vars

-----------------------------------------------------------------------------
(* The facade specification: one IncrementalAnalyzer, the goroutine that   *)
(* runs AnalyzeDir, the updateProgress goroutine it starts, and a consumer *)
(* of GetProgressChan() and GetDone().  The walk is reduced to the         *)
(* progress messages it sends, one for each directory scanned or rebuilt.  *)

MaxDirs == 4
MaxCalls == 2

\* make(chan common.CurrentProgress, 1)
ChanCap == 1

\* len(files) of the messages of the model
ItemCounts == {0, 1}

\* AnalyzeDir that starts updateProgress only after a successful Open
StartLate ==
    /\ apc = "idle"
    /\ calls < MaxCalls
    /\ calls' = calls + 1
    /\ apc' = "open"
    /\ \E n \in 0..MaxDirs : todo' = n
    /\ UNCHANGED <<upc, progressChan, progressOutChan, progress, doneChan, result,
                   scanEnd, observed, storageVars, kv, walkerVars, storagePath, stored, statsVars, throttleVars, lockVars>>

\* AnalyzeDir up to `go a.updateProgress()`
Start ==
    /\ apc = "idle"
    /\ calls < MaxCalls
    /\ calls' = calls + 1
    /\ upc' = "select"
    /\ apc' = "open"
    /\ \E n \in 0..MaxDirs : todo' = n
    /\ UNCHANGED <<progressChan, progressOutChan, progress, doneChan, result,
                   scanEnd, observed, storageVars, kv, walkerVars, storagePath, stored, statsVars, throttleVars, lockVars>>

\* a.storage.Open(): on success `defer closeFn()` is registered
OpenStore(fails) ==
    /\ apc = "open"
    /\ IF fails
       THEN apc' = "failSignal" /\ UNCHANGED isOpen
       ELSE apc' = "walk" /\ isOpen' = TRUE
    /\ UNCHANGED <<upc, progressChan, progressOutChan, progress, doneChan, todo,
                   result, scanEnd, observed, calls, counter, lastOp, closeFn, kv,
                   walkerVars, storagePath, stored, statsVars, throttleVars, lockVars>>

\* the walk reports a directory: a.progressChan <- CurrentProgress{...},
\* which blocks while the buffer is full
WalkSend(n) ==
    /\ apc = "walk"
    /\ todo > 0
    /\ Len(progressChan) < ChanCap
    /\ progressChan' = Append(progressChan, n)
    /\ todo' = todo - 1
    /\ UNCHANGED <<apc, upc, progressOutChan, progress, doneChan, result, scanEnd,
                   observed, calls, storageVars, kv, walkerVars, storagePath, stored, statsVars, throttleVars, lockVars>>

\* a panic during the walk with closeFn called at the end of AnalyzeDir
\* instead of being deferred
WalkPanicNoDefer ==
    /\ apc = "walk"
    /\ todo > 0
    /\ apc' = "panicked"
    /\ UNCHANGED <<upc, progressChan, progressOutChan, progress, doneChan, todo,
                   result, scanEnd, observed, calls, storageVars, kv, walkerVars,
                   storagePath, stored, statsVars, throttleVars, lockVars>>

\* the caller's ignore predicate panics during the walk: the deferred closeFn
\* runs while the panic unwinds AnalyzeDir
WalkPanic ==
    /\ apc = "walk"
    /\ todo > 0
    /\ isOpen' = FALSE
    /\ apc' = "panicked"
    /\ UNCHANGED <<upc, progressChan, progressOutChan, progress, doneChan, todo,
                   result, scanEnd, observed, calls, counter, lastOp, closeFn, kv,
                   walkerVars, storagePath, stored, statsVars, throttleVars, lockVars>>

\* processDir has returned and a.wait.Wait() returns
WalkDone ==
    /\ apc = "walk"
    /\ todo = 0
    /\ apc' = "signal"
    /\ UNCHANGED <<upc, progressChan, progressOutChan, progress, doneChan, todo,
                   result, scanEnd, observed, calls, storageVars, kv, walkerVars,
                   storagePath, stored, statsVars, throttleVars, lockVars>>

\* the send on a progressDoneChan that has a buffer: it completes without
\* updateProgress having received
SignalBuffered ==
    /\ apc \in {"signal", "failSignal"}
    /\ apc' = IF apc = "signal" THEN "broadcast" ELSE "failBroadcast"
    /\ UNCHANGED <<upc, progressChan, progressOutChan, progress, doneChan, todo,
                   result, scanEnd, observed, calls, storageVars, kv, walkerVars,
                   storagePath, stored, statsVars, throttleVars, lockVars>>

\* a.progressDoneChan <- struct{}{}: the channel has no buffer, the send
\* completes when updateProgress receives in one of its selects and returns
SignalProgressDone ==
    /\ apc \in {"signal", "failSignal"}
    /\ upc \in {"select", "deliver"}
    /\ upc' = "returned"
    /\ apc' = IF apc = "signal" THEN "broadcast" ELSE "failBroadcast"
    /\ UNCHANGED <<progressChan, progressOutChan, progress, doneChan, todo, result,
                   scanEnd, observed, calls, storageVars, kv, walkerVars, storagePath, stored, statsVars, throttleVars, lockVars>>

\* Broadcast left out of the failure path
BroadcastOnSuccessOnly ==
    /\ apc \in {"broadcast", "failBroadcast"}
    /\ doneChan' = IF apc = "broadcast" THEN doneChan + 1 ELSE doneChan
    /\ apc' = IF apc = "broadcast" THEN "endTime" ELSE "failReturn"
    /\ UNCHANGED <<upc, progressChan, progressOutChan, progress, todo, result,
                   scanEnd, observed, calls, storageVars, kv, walkerVars, storagePath, stored, statsVars, throttleVars, lockVars>>

\* a.doneChan.Broadcast()
Broadcast ==
    /\ apc \in {"broadcast", "failBroadcast"}
    /\ doneChan' = doneChan + 1
    /\ apc' = IF apc = "broadcast" THEN "endTime" ELSE "failReturn"
    /\ UNCHANGED <<upc, progressChan, progressOutChan, progress, todo, result,
                   scanEnd, observed, calls, storageVars, kv, walkerVars, storagePath, stored, statsVars, throttleVars, lockVars>>

\* a.stats.ScanEndTime = time.Now(); a.stats.TotalScanTime = ...
SetScanEnd ==
    /\ apc = "endTime"
    /\ scanEnd' = TRUE
    /\ apc' = "return"
    /\ UNCHANGED <<upc, progressChan, progressOutChan, progress, doneChan, todo,
                   result, observed, calls, storageVars, kv, walkerVars, storagePath, stored, statsVars, throttleVars, lockVars>>

\* return: the error root after a failed Open, or dir after the deferred
\* closeFn has run
Return ==
    /\ apc \in {"return", "failReturn"}
    /\ IF apc = "return"
       THEN result' = "dir" /\ isOpen' = FALSE
       ELSE result' = "!" /\ UNCHANGED isOpen
    /\ apc' = "returned"
    /\ UNCHANGED <<upc, progressChan, progressOutChan, progress, doneChan, todo,
                   scanEnd, observed, calls, counter, lastOp, closeFn, kv, walkerVars,
                   storagePath, stored, statsVars, throttleVars, lockVars>>

\* updateProgress, case progress := <-a.progressChan
RecvProgress ==
    /\ upc = "select"
    /\ progressChan # <<>>
    /\ progress' = progress + Head(progressChan)
    /\ progressChan' = Tail(progressChan)
    /\ upc' = "deliver"
    /\ UNCHANGED <<apc, progressOutChan, doneChan, todo, result, scanEnd, observed,
                   calls, storageVars, kv, walkerVars, storagePath, stored, statsVars, throttleVars, lockVars>>

\* updateProgress, case a.progressOutChan <- *a.progress
SendOut ==
    /\ upc = "deliver"
    /\ Len(progressOutChan) < ChanCap
    /\ progressOutChan' = Append(progressOutChan, progress)
    /\ upc' = "select"
    /\ UNCHANGED <<apc, progressChan, progress, doneChan, todo, result, scanEnd,
                   observed, calls, storageVars, kv, walkerVars, storagePath, stored, statsVars, throttleVars, lockVars>>

\* the inner select without its default case: the send blocks
DropOutBlocks ==
    /\ upc = "deliver"
    /\ Len(progressOutChan) < ChanCap
    /\ progressOutChan' = Append(progressOutChan, progress)
    /\ upc' = "select"
    /\ UNCHANGED <<apc, progressChan, progress, doneChan, todo, result, scanEnd,
                   observed, calls, storageVars, kv, walkerVars, storagePath, stored, statsVars, throttleVars, lockVars>>

\* updateProgress, default: neither the send nor the receive of the done
\* token is ready, the update is dropped
DropOut ==
    /\ upc = "deliver"
    /\ Len(progressOutChan) = ChanCap
    /\ apc \notin {"signal", "failSignal"}
    /\ upc' = "select"
    /\ UNCHANGED <<apc, progressChan, progressOutChan, progress, doneChan, todo,
                   result, scanEnd, observed, calls, storageVars, kv, walkerVars,
                   storagePath, stored, statsVars, throttleVars, lockVars>>

\* the consumer receives from GetProgressChan()
ReadProgress ==
    /\ progressOutChan # <<>>
    /\ progressOutChan' = Tail(progressOutChan)
    /\ UNCHANGED <<apc, upc, progressChan, progress, doneChan, todo, result,
                   scanEnd, observed, calls, storageVars, kv, walkerVars, storagePath, stored, statsVars, throttleVars, lockVars>>

\* the consumer returns from GetDone().Wait()
WaitDone ==
    /\ doneChan > 0
    /\ ~observed
    /\ observed' = TRUE
    /\ UNCHANGED <<apc, upc, progressChan, progressOutChan, progress, doneChan,
                   todo, result, scanEnd, calls, storageVars, kv, walkerVars,
                   storagePath, stored, statsVars, throttleVars, lockVars>>

\* a reset that keeps the progress counters and the channels of the last run
ResetKeepsProgress ==
    /\ apc = "returned"
    /\ apc' = "idle"
    /\ upc' = "none"
    /\ doneChan' = 0
    /\ scanEnd' = FALSE
    /\ result' = Nil
    /\ observed' = FALSE
    /\ UNCHANGED <<progressChan, progressOutChan, progress, todo, calls, storageVars,
                   kv, walkerVars, storagePath, stored, statsVars, throttleVars, lockVars>>

\* a.ResetProgress() between two calls: new channels, signal, progress, stats
ResetProgress ==
    /\ apc = "returned"
    /\ apc' = "idle"
    /\ upc' = "none"
    /\ progressChan' = <<>>
    /\ progressOutChan' = <<>>
    /\ progress' = 0
    /\ doneChan' = 0
    /\ scanEnd' = FALSE
    /\ result' = Nil
    /\ observed' = FALSE
    /\ UNCHANGED <<todo, calls, storageVars, kv, walkerVars, storagePath, stored, statsVars, throttleVars, lockVars>>

\* the steps of the goroutine running AnalyzeDir once it has been called
AnalyzeDirStep ==
    \/ \E fails \in BOOLEAN : OpenStore(fails)
    \/ \E n \in ItemCounts : WalkSend(n)
    \/ WalkDone
    \/ SignalProgressDone
    \/ Broadcast
    \/ SetScanEnd
    \/ Return

\* the steps of the goroutine running updateProgress
updateProgress ==
    \/ RecvProgress
    \/ SendOut
    \/ DropOut
    \/ SignalProgressDone

FacadeNext ==
    \/ Start
    \/ AnalyzeDirStep
    \/ WalkPanic
    \/ RecvProgress
    \/ SendOut
    \/ DropOut
    \/ ReadProgress
    \/ WaitDone
    \/ ResetProgress

FacadeSpec == Init /\ [][FacadeNext]_vars

\* The Go scheduler runs every runnable goroutine; the consumer is free never
\* to receive, and a panic is not bound to happen.
FacadeFairSpec ==
    FacadeSpec /\ WF_vars(AnalyzeDirStep) /\ WF_vars(updateProgress)

-----------------------------------------------------------------------------
(* Closed-store safety *)

StorageMethods ==
    {"StoreDirMetadata", "LoadDirMetadata", "DeleteDirMetadata",
     "ClearCache", "GetCacheSize"}

\* C1: every store operation (store, load, delete, clear_all, size_bytes)
\* called while the storage is not open - never opened, or already released -
\* returns the 'storage is not open' error and does not panic.
C1_ClosedStoreReturnsNotOpen ==
    (lastOp.op \in StorageMethods /\ ~lastOp.open)
        => (~lastOp.panic /\ lastOp.err = "storage is not open")

-----------------------------------------------------------------------------
(* Observations on the result of a call *)

RECURSIVE Sum(_)
Sum(s) == IF s = <<>> THEN 0 ELSE Head(s) + Sum(Tail(s))

\* the directory nodes of a returned tree
RECURSIVE DirNodes(_)
DirNodes(n) ==
    IF ~n.isDir THEN {}
    ELSE {n} \cup UNION {DirNodes(n.files[i]) : i \in 1..Len(n.files)}

NodePath(n) == Join(n.basePath, n.name)

RebuildEvents(l) == {l[i] : i \in {j \in 1..Len(l) : l[j].op = "rebuild"}}

\* a step that is one complete AnalyzeDir call
IsCall == runs' = runs + 1

\* the call of this step was made with these options
CalledWith(o) ==
    /\ opts'.force = o.force /\ opts'.maxAge = o.maxAge
    /\ opts'.ignore = o.ignore /\ opts'.fault = o.fault

\* directory d has a record that LoadDirMetadata returns
Cached(content, d) == LoadDirMetadata(TRUE, content, d).err = ""
RecordOf(content, d) == LoadDirMetadata(TRUE, content, d).meta

Ancestors(d) == {SubSeq(d, 1, n) : n \in 1..(Len(d) - 1)}

-----------------------------------------------------------------------------
(* Cache validation *)

\* since the last call a file was added in d, d's mtime changed, and nothing
\* else changed
FileAddedIn(d) ==
    /\ Stat(fs, d).ok /\ Stat(runFs, d).ok
    /\ Len(fs[d].files) > Len(runFs[d].files)
    /\ fs[d].mtime # runFs[d].mtime
    /\ \A e \in Dirs \ {d} : fs[e] = runFs[e]

\* C2: if between two runs a file is added inside a nested subdirectory, so
\* that the subdirectory's mtime changes while the mtimes of its ancestors up
\* to the root stay the same, the second run rescans that subdirectory
\* (dirs_rescanned > 0) and the root's item_count is greater than in the
\* first run.
C2_NestedAdditionDetected ==
    [][(/\ IsCall /\ runs >= 1
        /\ faults' = 0 /\ opts.ignore = {}
        /\ CalledWith(Plain)
        /\ \E d \in Dirs \ {Root} : FileAddedIn(d))
       => (stats'.dirsRescanned > 0 /\ tree'.itemCount > tree.itemCount)]_vars

\* C3: every directory node reconstructed from a cache record (the root and
\* every descendant reached while rebuilding) has a record whose stored mtime
\* equals the directory's filesystem mtime at the time of the run.
C3_RebuiltRecordsMatchMtime ==
    faults = 0 =>
        \A e \in RebuildEvents(log) :
            Stat(runFs, e.path).ok => e.mtime = Stat(runFs, e.path).mtime

\* C4: with cache_max_age > 0, every directory whose record is older than
\* cache_max_age at the time of the run is rescanned and counted in
\* cache_expired and dirs_rescanned, and no directory of the returned tree is
\* rebuilt from a record older than cache_max_age.
C4_ExpiredRecordsRescanned ==
    [][(/\ IsCall /\ faults' = 0
        /\ CalledWith([Plain EXCEPT !.maxAge = SomeMaxAge])
        /\ \A d \in Dirs : Stat(fs, d).ok /\ Cached(kv, d))
       => LET expired == {d \in Dirs : clock - RecordOf(kv, d).cachedAt > SomeMaxAge}
          IN /\ expired \subseteq Issued(log', "list")
             /\ stats'.cacheExpired = Cardinality(expired)
             /\ stats'.dirsRescanned >= Cardinality(expired)
             /\ \A e \in RebuildEvents(log') : clock - e.cachedAt <= SomeMaxAge]_vars

\* C5: in every run a subdirectory for which the ignore predicate returns true
\* is skipped entirely: it is not in the returned tree, no cache load is
\* issued for its path, and it is neither listed nor recursed into.
C5_IgnoredDirSkipped ==
    \A p \in opts.ignore :
        faults = 0 =>
        /\ \A n \in DirNodes(tree) : NodePath(n) # p
        /\ \A i \in 1..Len(log) : log[i].path # p

\* C6: if on the next run exactly one cached directory has an mtime different
\* from its stored record (all others unchanged and cached), dirs_rescanned
\* counts exactly that directory and none of its ancestors with unchanged
\* mtime is rescanned.
C6_ExactlyChangedDirRescanned ==
    [][(/\ IsCall /\ faults' = 0
        /\ CalledWith(Plain)
        /\ \A d \in Dirs : Stat(fs, d).ok /\ Cached(kv, d)
        /\ Cardinality({d \in Dirs : RecordOf(kv, d).mtime # fs[d].mtime}) = 1)
       => LET c == CHOOSE d \in Dirs : RecordOf(kv, d).mtime # fs[d].mtime
          IN /\ stats'.dirsRescanned = 1
             /\ c \in Issued(log', "list")
             /\ Ancestors(c) \cap Issued(log', "list") = {}]_vars

\* C7: on a warm run (every directory already cached) total_dirs at the end
\* of the run equals the number of directories in the tree, each counted
\* exactly once whichever path reached it.
C7_WarmTotalDirsCountsTree ==
    [][(/\ IsCall /\ faults' = 0
        /\ CalledWith(Plain)
        /\ \A d \in Dirs : Stat(fs, d).ok /\ Cached(kv, d))
       => stats'.totalDirs = Cardinality(DirNodes(tree'))]_vars

-----------------------------------------------------------------------------
(* Tree invariants *)

\* a node made by createErrorDir: the directory could not be stat'ed
IsErrorNode(n) == n.flag = "!" /\ n.itemCount = 0 /\ n.size = 0

SelfSize(n) == IF IsErrorNode(n) THEN 0 ELSE DirInfoSize

ChildItems(n) == IF n.isDir THEN n.itemCount ELSE 1

\* C8: for every directory node of a returned tree (scanned, rebuilt from
\* cache, or rebuilt with fallback-scanned children) size equals the
\* directory's own metadata size plus the sum of its children's sizes, and
\* likewise for usage.
C8_DirSizeIsSelfPlusChildren ==
    \A n \in DirNodes(tree) :
        /\ n.size = SelfSize(n) + Sum([i \in 1..Len(n.files) |-> n.files[i].size])
        /\ n.usage = SelfSize(n) + Sum([i \in 1..Len(n.files) |-> n.files[i].usage])

\* C9: for every directory node of a returned tree, error nodes included,
\* item_count equals 1 plus the sum over its children of the child's
\* item_count for a directory and 1 for a file.
C9_ItemCountIsOnePlusChildren ==
    \A n \in DirNodes(tree) :
        faults = 0 =>
        n.itemCount = 1 + Sum([i \in 1..Len(n.files) |-> ChildItems(n.files[i])])

\* the fields two trees are compared under
RECURSIVE Observed(_)
Observed(n) ==
    IF n.isDir
    THEN [name |-> n.name, size |-> n.size, usage |-> n.usage, mtime |-> n.mtime,
          flag |-> n.flag, itemCount |-> n.itemCount,
          children |-> [i \in 1..Len(n.files) |-> Observed(n.files[i])]]
    ELSE [name |-> n.name, size |-> n.size, usage |-> n.usage, mtime |-> n.mtime,
          flag |-> n.flag, itemCount |-> 1, children |-> <<>>]

\* C10: running analyze twice over an unchanged tree yields two trees equal at
\* every node under (name, size, usage, mtime, flag, item_count, ordered
\* children).
C10_UnchangedTreeSameResult ==
    [][(/\ IsCall /\ runs >= 1
        /\ fs = runFs
        /\ faults' = 0
        /\ CalledWith(opts))
       => Observed(tree') = Observed(tree)]_vars


-----------------------------------------------------------------------------
(* The done signal, the progress task and the store in AnalyzeDir *)

\* C11: for each AnalyzeDir call on a new or reset analyzer the done signal
\* fires exactly once: never more than once, only after the walk has
\* completed or the store failed to open, and then always.
C11_DoneFiresExactlyOnce ==
    /\ [](doneChan <= 1)
    /\ [](doneChan = 1 => apc \in {"endTime", "return", "failReturn", "returned"})
    /\ (apc \in {"signal", "failSignal"}) ~> (doneChan = 1)

C11_Witness ==
    calls = MaxCalls /\ apc = "returned" /\ doneChan = 1 /\ result = "dir"

\* C12: if opening the store fails, AnalyzeDir returns the error root with
\* flag '!' and the done signal fires, without the facade and updateProgress
\* blocking each other, whether or not a consumer reads the progress channel.
C12_OpenFailureStillSignalsDone ==
    (apc = "failSignal") ~> (apc = "returned" /\ result = "!" /\ doneChan = 1)

C12_Witness ==
    result = "!" /\ doneChan = 1 /\ upc = "returned" /\ ~observed

\* C13: on completion of a successful AnalyzeDir the store is released before
\* the done signal fires: whenever done can be observed the store is not open.
C13_StoreReleasedBeforeDone ==
    doneChan > 0 => ~isOpen

C15_ProgressTaskStoppedBeforeDone ==
    /\ [](doneChan > 0 => upc = "returned")
    /\ [][doneChan > 0 => Len(progressOutChan') <= Len(progressOutChan)]_vars

C15_Witness ==
    observed /\ upc = "returned" /\ progressOutChan # <<>> /\ progressChan # <<>>

\* C16: AnalyzeDir runs to completion and fires done even if no consumer ever
\* receives from the progress channel: a walk that does not panic is never
\* blocked for ever by the delivery of progress.
C16_WalkNeverBlockedByProgress ==
    (apc = "walk") ~> (doneChan = 1 \/ apc = "panicked")

C16_Witness ==
    doneChan = 1 /\ progressOutChan = <<1>> /\ progress = MaxDirs /\ result = "dir"

-----------------------------------------------------------------------------
(* The release function and concurrent use of the storage *)

\* C17: the release function never closes or clears the database handle
\* while a load, store or delete holds the read lock and is using it, or
\* while the GC goroutine is running under the read lock.
C17_ReleaseExcludesInFlight ==
    [][(isOpen /\ ~isOpen') => (holders = {} /\ gc # "running")]_vars

\* C18: a call of the release function on a storage that was already
\* released does not panic and leaves the storage not open.
C18_SecondReleaseDoesNotPanic ==
    (lastOp.op = "Release" /\ ~lastOp.open) => (~lastOp.panic /\ ~isOpen)

\* C19: an Open of a storage path that a handle holds open fails with the
\* error that says the cache is locked by another gdu process, and the
\* handle that holds the path stays open.
C19_SecondOpenIsLocked ==
    (lastOp.op = "Open" /\ lastOp.open) => (lastOp.err = LockedError /\ isOpen)

-----------------------------------------------------------------------------
(* The throttle in the walk *)

-----------------------------------------------------------------------------
(* The throttle *)

\* C21: Acquire called with a context that is already cancelled returns the
\* context's error at once, without a wait for a token or for the delay; and
\* a call whose context is cancelled while it waits for a token or sleeps the
\* delay returns the context's error, not nil.
C21_AcquireRespectsCancellation ==
    /\ [][acquires' = acquires + 1
            => \A c \in Threads :
                  (acq'[c] # acq[c] /\ acq'[c].cancelled)
                     => (acq'[c].pc = "done" /\ acq'[c].result = "Cancelled")]_vars
    /\ [][\A c \in Threads :
            (acq[c].pc \in {"tokenCancelled", "sleepCancelled"} /\ acq'[c].pc = "done")
               => acq'[c].result = "Cancelled"]_vars

C21_Witness ==
    /\ \E c \in Threads : acq[c].pc = "sleepCancelled"
    /\ \E c \in Threads : acq[c].pc = "done" /\ acq[c].cancelled
                               /\ acq[c].result = "Cancelled"

\* C22: with a limit of N and a limiter made at time fresh, K > N calls of
\* Acquire on it have returned nil only when at least K - N token times have
\* passed since then, that is (K - N)/N seconds.
C22_BurstThenRate ==
    (limiter.on /\ granted > throttle.maxIOPS)
       => ticks - fresh >= granted - throttle.maxIOPS

C22_Witness ==
    limiter.on /\ throttle.maxIOPS > 1 /\ granted > throttle.maxIOPS

\* C23: with goroutines inside Acquire and Reset called at any time, every
\* Acquire call returns, with nil or with the context's error.
C23_AcquireReturnsUnderReset ==
    /\ \A c \in Threads :
          (acq[c].pc \notin {"idle", "done"}) ~> (acq[c].pc = "done")
    /\ [](\A c \in Threads :
             acq[c].pc = "done" => acq[c].result \in {"Ok", "Cancelled"})

C23_Witness ==
    \E c, d \in Threads :
        /\ acq[c].pc = "waitToken" /\ acq[c].stale /\ acq[c].wake > ticks
        /\ acq[d].pc = "sleep" /\ ~acq[d].stale

-----------------------------------------------------------------------------
(* Forced scans and directories that cannot be read *)

\* C25: in a call with forceFullScan, cache_hits stays 0, no directory is
\* rebuilt from the cache, and every directory the walk reaches is listed from
\* the filesystem and gets a new record with its current mtime.
C25_ForcedRunRescansEverything ==
    [][(IsCall /\ faults' = 0 /\ opts'.force)
          => /\ stats'.cacheHits = 0
             /\ RebuildEvents(log') = {}
             /\ \A p \in Issued(log', "stat") :
                   Stat(fs, p).ok
                      => /\ p \in Issued(log', "list")
                         /\ Cached(kv', p)
                         /\ RecordOf(kv', p).cachedAt = clock
                         /\ RecordOf(kv', p).mtime = fs[p].mtime]_vars

C25_Witness ==
    /\ opts.force /\ faults = 0 /\ runs >= 2
    /\ stats.dirsRescanned = Cardinality(Dirs)
    /\ \A p \in Dirs : Cached(kv, p) /\ RecordOf(kv, p).cachedAt = opts.now
    /\ opts.now > 1

-----------------------------------------------------------------------------
(* The records of the store *)

\* C27: while the store is open, loading a path under which a record was
\* stored (and not deleted since) returns without error a record equal in
\* every field, the mtime included, to the one stored last under that path.
C27_LoadReturnsLastStored ==
    isOpen
       => \A p \in Dirs :
             stored[p].state = "stored"
                => LoadDirMetadata(isOpen, kv, p)
                      = [panic |-> FALSE, err |-> "", meta |-> stored[p].meta]

C27_Witness ==
    /\ isOpen /\ lastOp.op = "LoadDirMetadata" /\ lastOp.err = ""
    /\ stored[Root].state = "stored" /\ stored[Nested].state = "stored"
    /\ stored[Root].meta.mtime # stored[Nested].meta.mtime
    /\ stored[Root].meta.size = 0
    /\ RecordOf(kv, Root) = stored[Root].meta

\* C28: a delete of path p on an open store removes the record of p, so that
\* loading p fails with key not found, and leaves the record of every other
\* path, and what loading it returns, as they were.
C28_DeleteRemovesExactlyOne ==
    [][\A p \in {Root, Nested} :
          (isOpen /\ Delete(p))
             => /\ LoadDirMetadata(isOpen', kv', p).err
                      = "reading cached metadata: key not found"
                /\ DOMAIN kv' = DOMAIN kv \ {makeKey(p)}
                /\ \A q \in Dirs \ {p} :
                      LoadDirMetadata(isOpen', kv', q) = LoadDirMetadata(isOpen, kv, q)]_vars

C28_Witness ==
    /\ isOpen /\ lastOp.op = "DeleteDirMetadata" /\ lastOp.err = ""
    /\ stored[Root] = Deleted /\ ~Cached(kv, Root)
    /\ stored[Nested].state = "stored" /\ RecordOf(kv, Nested) = stored[Nested].meta

-----------------------------------------------------------------------------
(* The order of observations and writes in a scan *)

\* the directory p has a record that the last call wrote, and its entry list
\* is no longer the one that call found
ModifiedSinceCached(p) ==
    /\ runs >= 1 /\ opts.ignore = {}
    /\ Stat(fs, p).ok /\ Stat(runFs, p).ok
    /\ Cached(kv, p) /\ RecordOf(kv, p).cachedAt = opts.now
    /\ ReadDir(fs, p) # ReadDir(runFs, p)

\* C29 as stated: a directory whose entry list was modified after the scan
\* that wrote its record is rescanned by the next call that evaluates it.
C29_ModifiedListingIsRescanned ==
    [][(IsCall /\ faults' = 0 /\ CalledWith(Plain))
          => \A p \in Issued(log', "stat") :
                ModifiedSinceCached(p) => p \in Issued(log', "list")]_vars

\* C29: the mtime written into a directory's record is the one the directory
\* had before its entries were listed, also when the directory is modified
\* between the two; and a call that evaluates a directory whose mtime differs
\* from the recorded one rescans it.
C29_ChangedMtimeIsRescanned ==
    [][(IsCall /\ opts'.fault.kind \in {"none", "modify"})
          => /\ \A p \in Issued(log', "store") :
                   Cached(kv', p) /\ RecordOf(kv', p).mtime = fs[p].mtime
             /\ \A p \in Issued(log', "stat") :
                   (Stat(fs, p).ok /\ Cached(kv, p)
                      /\ RecordOf(kv, p).mtime # fs[p].mtime)
                      => p \in Issued(log', "list")]_vars

C29_Witness ==
    /\ opts.fault = [kind |-> "modify", path |-> Root]
    /\ Cached(kv, Root)
    /\ RecordOf(kv, Root).mtime < fs[Root].mtime
    /\ RecordOf(kv, Root).cachedAt = fs[Root].mtime
    /\ Len(ReadDir(runFs, Root)) < Len(ReadDir(fs, Root))
    /\ Len(RecordOf(kv, Root).files) = Len(ReadDir(fs, Root))

\* C30: in the log of a call, the store of a directory's record comes after
\* the store of every directory listed beneath it in that call.
C30_WritesAreBottomUp ==
    \A i \in 1 .. Len(log) :
        log[i].op = "store"
           => \A j \in 1 .. Len(log) :
                 (log[j].op = "list" /\ log[j].path # log[i].path
                    /\ IsPrefix(log[i].path, log[j].path))
                    => \E k \in 1 .. i - 1 :
                          log[k].op = "store" /\ log[k].path = log[j].path

C30_Witness ==
    /\ runs >= 1
    /\ Issued(log, "store") = Dirs
    /\ Issued(log, "list") = Dirs
    /\ \A d \in Dirs : Cached(kv, d)

-----------------------------------------------------------------------------
(* Records that are missing or cannot be loaded *)

\* the directories that a rebuild of their parent handed to processDir: the
\* load of the child's record is followed by the stat of the child
FellBack(l) ==
    {l[i].path : i \in {j \in 1 .. Len(l) - 1 :
                          l[j].op = "load" /\ l[j + 1].op = "stat"
                             /\ l[j + 1].path = l[j].path}}

\* the directories that a call evaluates, and those of them without a
\* loadable record when the call begins
Evaluated(l, f) == {p \in Issued(l, "stat") : Stat(f, p).ok}
Missing(l, f, content) == {p \in Evaluated(l, f) : ~Cached(content, p)}

\* C31: in a call without faults, a directory that a rebuild of its parent
\* could not load is evaluated once by processDir, is listed and stored with
\* its current mtime, and the call counts every evaluated directory once in
\* total_dirs and every directory without a loadable record once in
\* cache_misses.
C31_FallbackChildCountedOnce ==
    [][(IsCall /\ opts'.fault = NoFault /\ FellBack(log') # {})
          => /\ \A p \in FellBack(log') \cap Evaluated(log', fs) :
                   /\ Cardinality({i \in 1 .. Len(log') :
                          log'[i].op = "stat" /\ log'[i].path = p}) = 1
                   /\ p \in Issued(log', "list")
                   /\ Cached(kv', p)
                   /\ RecordOf(kv', p).mtime = fs[p].mtime
                   /\ RecordOf(kv', p).cachedAt = clock
             /\ stats'.cacheMisses = Cardinality(Missing(log', fs, kv))
             /\ stats'.totalDirs = Cardinality(Evaluated(log', fs))]_vars

C31_Witness ==
    /\ opts.fault = NoFault /\ ~opts.force
    /\ Nested \in FellBack(log) /\ Nested \in Issued(log, "list")
    /\ stats.cacheHits = 1 /\ stats.cacheMisses >= 1 /\ stats.totalDirs >= 2
    /\ Cached(kv, Nested)

RecoverableErrors == {"corrupted cache entry", "invalid cache entry: empty path"}

\* C32: in a call without faults, an existing directory whose load fails with
\* a decode error or an empty-path record is listed and counted as a miss, and
\* after the call its load returns a record of that path with the directory's
\* current mtime.
C32_UnloadableRecordOverwritten ==
    [][(IsCall /\ opts'.fault = NoFault)
          => \A p \in Issued(log', "load") :
                (Stat(fs, p).ok
                   /\ LoadDirMetadata(TRUE, kv, p).err \in RecoverableErrors)
                   => /\ p \in Issued(log', "list")
                      /\ stats'.cacheMisses >= 1
                      /\ LoadDirMetadata(TRUE, kv', p).err = ""
                      /\ RecordOf(kv', p).path = p
                      /\ RecordOf(kv', p).mtime = fs[p].mtime]_vars

C32_Witness ==
    /\ opts.fault = NoFault /\ faults = 1 /\ runs >= 2
    /\ stats.cacheMisses = 1 /\ stats.cacheHits >= 1
    /\ \A p \in Dirs : Cached(kv, p) /\ RecordOf(kv, p).mtime = fs[p].mtime

\* the tree that the call being made would return with no fault injected
TreeWithoutFault ==
    processDir(Root, [content |-> kv, stats |-> NewCacheStats, log |-> <<>>],
               [fs |-> fs, now |-> clock, force |-> opts'.force,
                maxAge |-> opts'.maxAge, ignore |-> opts'.ignore,
                fault |-> NoFault]).dir

\* the store of the record of directory p failed in the call recorded by o, l
StoreFailedAt(o, l, p) ==
    o.fault = [kind |-> "store", path |-> p] /\ p \in Issued(l, "store")

-----------------------------------------------------------------------------
(* Warm runs *)

\* the record of directory d is the one of its present state and, under the
\* age limit maxAge, not expired at time now
Fresh(d, maxAge, now) ==
    /\ Cached(kv, d)
    /\ RecordOf(kv, d).mtime = fs[d].mtime
    /\ ~(maxAge > 0 /\ now - RecordOf(kv, d).cachedAt > maxAge)

\* C34: a call without forced scan, made when every existing directory has a
\* record with the directory's mtime that is not expired, lists no directory
\* and acquires no throttle token.
C34_WarmRunReadsNothing ==
    [][(IsCall /\ opts'.fault = NoFault /\ ~opts'.force
          /\ \A d \in Dirs : Stat(fs, d).ok => Fresh(d, opts'.maxAge, clock))
          => /\ Issued(log', "list") = {}
             /\ Issued(log', "acquire") = {}
             /\ Issued(log', "store") = {}]_vars

C34_Witness ==
    /\ runs >= 2 /\ opts.fault = NoFault /\ ~opts.force
    /\ opts.maxAge > 0 /\ opts.now > 1
    /\ \A d \in Dirs : Stat(fs, d).ok /\ Fresh(d, opts.maxAge, opts.now)
    /\ fs = runFs
    /\ stats.cacheHits = 1 /\ stats.dirsRescanned = 0 /\ stats.cacheMisses = 0
    /\ Issued(log, "list") = {}
    /\ Cardinality(DirNodes(tree)) = Cardinality(Dirs)

-----------------------------------------------------------------------------
(* Reuse of an analyzer *)

-----------------------------------------------------------------------------
(* The counters of a run *)

\* C36: at the end of every call the directories counted in dirs_rescanned
\* are not more than those counted in total_dirs.
C36_RescannedWithinTotal ==
    stats.dirsRescanned <= stats.totalDirs

\* C38: at the end of a call the bytes counted as scanned and as taken from
\* the cache are together not more than the size of the returned root.
C38_BytesCountedOnce ==
    (runs >= 1 /\ tree.isDir)
       => stats.bytesScanned + stats.bytesFromCache <= tree.size

-----------------------------------------------------------------------------
(* Listings that failed *)

\* the listing of directory p failed in the call recorded by o, l
ListFailedAt(o, l, p) ==
    o.fault = [kind |-> "list", path |-> p] /\ p \in Issued(l, "list")

\* C37: the call after one in which the listing of a directory failed, made
\* with the failure gone, returns for that directory a node that is not
\* flagged as failed and has the directory's entries.
C37_FailedListingNotServed ==
    [][(IsCall /\ opts'.fault = NoFault)
          => \A p \in Dirs :
                (ListFailedAt(opts, log, p) /\ Stat(fs, p).ok)
                   => \A n \in DirNodes(tree') :
                         NodePath(n) = p
                            => /\ n.flag # "!"
                               /\ Len(n.files) = Len(ReadDir(fs, p))]_vars

-----------------------------------------------------------------------------
(* Rendering the statistics *)

\* String() waits for a read lock inside its own read hold
StringBlocked == spc \in {"callHitRate", "callIOReduction"} /\ ~CanRLock

\* an increment waits for the read holds to be released
IncrementBlocked == ipc \in Counters /\ mu.pending /\ mu.readers > 0

\* C39: String() and an increment never wait for each other: there is no
\* state in which String() waits for a read lock that the announced increment
\* bars, while the increment waits for the read hold of String().
C39_SnapshotNeverDeadlocks ==
    ~(StringBlocked /\ IncrementBlocked)

-----------------------------------------------------------------------------
(* The end of a run *)

\* C40: whenever the done signal of a run whose store was opened has fired,
\* ScanEndTime and TotalScanTime of the run have been set.
C40_ScanEndSetBeforeDone ==
    (doneChan > 0 /\ apc # "failReturn" /\ result # "!") => scanEnd

====
